---- MODULE Spec2Model ----
(***************************************************************************)
(* HCrystalBallForecaster (sktime/forecasting/hcrystalball.py): the        *)
(* adapter between sktime's forecasting interface and a wrapped            *)
(* HCrystalBall model.                                                     *)
(*                                                                         *)
(* Time is counted in ticks of half a day.  A timestamp key is a number    *)
(* of ticks; a period key is the ordinal of the period at its frequency,   *)
(* a frequency being the length of one period in ticks.  An index is a     *)
(* record [kind, freq, keys] with kind "period" (pd.PeriodIndex),          *)
(* "datetime" (pd.DatetimeIndex) or "range" (any index without time        *)
(* information).  A series is [index, values]; a table is                  *)
(* [index, ncols, rows], every row a sequence of ncols cells.              *)
(***************************************************************************)
EXTENDS Integers, Sequences, FiniteSets, TLC

\* ------------------------------------------------------------------ bounds
MaxLen == 2
MaxStep == 3
MaxFhLen == 2

\* ------------------------------------------------------- library constants
\* pd.date_range(start, end) without freq steps by one calendar day.
DayTicks == 2
\* the cell value of a left join where the right side has no matching row
Null == -1
\* DEFAULT_ALPHA, the default confidence level, in percent
DEFAULT_ALPHA == 5

Freqs == {1, DayTicks, 2 * DayTicks}

TimeKinds == {"period", "datetime"}

NoIndex == [kind |-> "none", freq |-> 0, keys |-> << >>]
NoTable == [index |-> NoIndex, ncols |-> 0, rows |-> << >>]
NoSeries == [index |-> NoIndex, values |-> << >>]
NoFh == << >>
NoCutoff == [kind |-> "none", freq |-> 0, key |-> 0]

Raise(e) == [err |-> e, index |-> NoIndex, y |-> NoSeries, X |-> NoTable]
ReturnIndex(i) == [err |-> "none", index |-> i, y |-> NoSeries, X |-> NoTable]
ReturnTable(t) == [err |-> "none", index |-> t.index, y |-> NoSeries, X |-> t]
ReturnPair(s, t) == [err |-> "none", index |-> s.index, y |-> s, X |-> t]
ReturnSeries(s) == [err |-> "none", index |-> s.index, y |-> s, X |-> NoTable]

SeqToSet(s) == {s[i] : i \in DOMAIN s}
SetMin(S) == CHOOSE m \in S : \A x \in S : m <= x
SetMax(S) == CHOOSE m \in S : \A x \in S : x <= m

IsTimeIndex(index) == index.kind \in TimeKinds

\* pd.PeriodIndex.to_timestamp: a period becomes the timestamp of its start
to_timestamp(keys, freq) == [i \in DOMAIN keys |-> keys[i] * freq]
\* pd.PeriodIndex(timestamps, freq=freq): the period that holds the timestamp
to_period(keys, freq) == [i \in DOMAIN keys |-> keys[i] \div freq]

_ensure_datetime_index(index) ==
    IF index.kind = "period"
    THEN [kind |-> "datetime", freq |-> index.freq,
          keys |-> to_timestamp(index.keys, index.freq)]
    ELSE index

\* Two index keys are the same join key only when they are of the same type:
\* a Timestamp never equals a Period, and merge converts neither index.
SameKey(lkind, lkey, rkind, rkey) == lkind = rkind /\ lkey = rkey

NullRow(n) == [j \in 1..n |-> Null]

\* dummy_df.merge(real_df, left_index=True, right_index=True, how="left"),
\* the keys of real_df being unique
left_merge(dummy_df, real_df) ==
    LET L == dummy_df.index
        R == real_df.index
        Match(i) == {j \in DOMAIN R.keys :
                        SameKey(L.kind, L.keys[i], R.kind, R.keys[j])}
        Row(i) == IF Match(i) = {}
                  THEN NullRow(real_df.ncols)
                  ELSE real_df.rows[CHOOSE j \in Match(i) : TRUE]
    IN [index |-> L,
        ncols |-> dummy_df.ncols + real_df.ncols,
        rows |-> [i \in DOMAIN L.keys |-> dummy_df.rows[i] \o Row(i)]]

\* new_frame as it would be if the constructor cut or padded the rows to the
\* length of the index instead of raising
new_frame_fitting_rows(real_df, index) ==
    ReturnTable([index |-> index, ncols |-> real_df.ncols,
                 rows |-> [i \in DOMAIN index.keys |->
                             IF i \in DOMAIN real_df.rows
                             THEN real_df.rows[i]
                             ELSE NullRow(real_df.ncols)]])

\* pd.DataFrame(data=values, index=index): values without columns (the
\* values of pd.DataFrame(), which is what fit makes of an absent table)
\* give a table of the index alone; otherwise the number of rows must be
\* that of the index (ValueError).
new_frame(real_df, index) ==
    IF real_df.ncols = 0
    THEN ReturnTable([index |-> index, ncols |-> 0,
                      rows |-> [i \in DOMAIN index.keys |-> << >>]])
    ELSE IF Len(real_df.rows) # Len(index.keys)
    THEN Raise("ValueError")
    ELSE ReturnTable([index |-> index, ncols |-> real_df.ncols,
                      rows |-> real_df.rows])

_safe_merge(real_df, dummy_df) ==
    IF IsTimeIndex(real_df.index)
    THEN ReturnTable(left_merge(dummy_df, real_df))
    ELSE new_frame(real_df, dummy_df.index)

\* pd.DataFrame(index=index)
index_only_frame(index) ==
    [index |-> index, ncols |-> 0, rows |-> [i \in DOMAIN index.keys |-> << >>]]

\* ------------------------------------------------- forecasting framework
\* ForecastingHorizon.to_absolute(cutoff) for a relative horizon: the keys
\* cutoff + step, in the cutoff's own flavor
to_absolute(fh, cutoff) ==
    [i \in DOMAIN fh |->
        cutoff.key + fh[i] * (IF cutoff.kind = "datetime" THEN cutoff.freq ELSE 1)]

\* pd.PeriodIndex(keys, freq=freq): period keys are kept, timestamps are
\* placed in their period
as_period_index(keys, kind, freq) ==
    IF kind = "period" THEN keys ELSE to_period(keys, freq)

\* len(pd.date_range(start, end)): the days from start to end
date_range_len(start, end) == (end - start) \div DayTicks + 1

_extract_dt_index(fh, cutoff) ==
    IF cutoff.kind \notin TimeKinds
    THEN Raise("AttributeError")
    ELSE LET periods == as_period_index(to_absolute(fh, cutoff), cutoff.kind,
                                        cutoff.freq)
             idx == to_timestamp(periods, cutoff.freq)
             values == SeqToSet(idx)
         IN IF date_range_len(SetMin(values), SetMax(values)) # Cardinality(values)
            THEN Raise("NonContinuous")
            ELSE ReturnIndex([kind |-> "datetime", freq |-> cutoff.freq,
                              keys |-> idx])

\* _adapt_fit_data as it would be if two inputs without time index of equal
\* length were aligned by position
_adapt_fit_data_positional(y_train, X_train) ==
    LET X0 == IF X_train # NoTable THEN X_train
              ELSE [index |-> [kind |-> "range", freq |-> 0, keys |-> << >>],
                    ncols |-> 0, rows |-> << >>]
    IN IF IsTimeIndex(y_train.index)
       THEN LET dt_index == _ensure_datetime_index(y_train.index)
                y == [index |-> dt_index, values |-> y_train.values]
                m == _safe_merge(X0, index_only_frame(dt_index))
            IN IF m.err = "ValueError"
               THEN Raise("AmbiguousAlignment")
               ELSE ReturnPair(y, m.X)
       ELSE IF IsTimeIndex(X0.index)
       THEN IF Len(X0.rows) # Len(y_train.values)
            THEN Raise("AmbiguousAlignment")
            ELSE LET dt_index == _ensure_datetime_index(X0.index)
                 IN ReturnPair([index |-> dt_index, values |-> y_train.values],
                               [index |-> dt_index, ncols |-> X0.ncols,
                                rows |-> X0.rows])
       ELSE IF Len(X0.rows) # Len(y_train.values)
       THEN Raise("AmbiguousAlignment")
       ELSE ReturnPair(y_train, [X0 EXCEPT !.index = y_train.index])

_adapt_fit_data(y_train, X_train) ==
    LET X0 == IF X_train # NoTable THEN X_train
              ELSE [index |-> [kind |-> "range", freq |-> 0, keys |-> << >>],
                    ncols |-> 0, rows |-> << >>]
    IN IF IsTimeIndex(y_train.index)
       THEN LET dt_index == _ensure_datetime_index(y_train.index)
                y == [index |-> dt_index, values |-> y_train.values]
                m == _safe_merge(X0, index_only_frame(dt_index))
            IN IF m.err = "ValueError"
               THEN Raise("AmbiguousAlignment")
               ELSE ReturnPair(y, m.X)
       ELSE IF IsTimeIndex(X0.index)
       THEN IF Len(X0.rows) # Len(y_train.values)
            THEN Raise("AmbiguousAlignment")
            ELSE LET dt_index == _ensure_datetime_index(X0.index)
                 IN ReturnPair([index |-> dt_index, values |-> y_train.values],
                               [index |-> dt_index, ncols |-> X0.ncols,
                                rows |-> X0.rows])
       ELSE Raise("AmbiguousAlignment")

_adapt_predict_data(X_pred, index) ==
    LET X == index_only_frame(index)
    IN IF X_pred # NoTable
       THEN LET m == _safe_merge(X_pred, X)
            IN IF m.err = "ValueError"
               THEN Raise("AmbiguousAlignment")
               ELSE m
       ELSE ReturnTable(X)

\* index_type(values, freq=freq): a PeriodIndex places every timestamp in
\* its period; a DatetimeIndex requires the timestamps to step by freq
new_index(index_type, keys, freq) ==
    IF index_type = "period"
    THEN ReturnIndex([kind |-> "period", freq |-> freq,
                      keys |-> to_period(keys, freq)])
    ELSE IF index_type = "datetime"
    THEN IF \A i \in 1..(Len(keys) - 1) : keys[i + 1] - keys[i] = freq
         THEN ReturnIndex([kind |-> "datetime", freq |-> freq, keys |-> keys])
         ELSE Raise("ValueError")
    ELSE Raise("TypeError")

_convert_predictions(preds, freq, index_type) ==
    LET column == [i \in DOMAIN preds.rows |-> preds.rows[i][1]]
        index == new_index(index_type, preds.index.keys, freq)
    IN IF index.err # "none"
       THEN index
       ELSE ReturnSeries([index |-> index.index, values |-> column])

\* -------------------------------------------------------- wrapped model
\* self.model.predict(X=X_hcb): a table on the index of X_hcb whose first
\* column holds the predictions; the second column stands for whatever
\* else the model returns
model_predict(X_hcb) ==
    [index |-> X_hcb.index, ncols |-> 2,
     rows |-> [i \in DOMAIN X_hcb.index.keys |-> <<100 + i, 200 + i>>]]

\* ---------------------------------------------- HCrystalBallForecaster
VARIABLES
    is_fitted,      \* self._is_fitted
    _y,             \* self._y, the target series handed to the last fit
    _X,             \* self._X, the exogenous table handed to the last fit
    _fh,            \* self._fh, the recorded forecasting horizon
    cutoff,         \* self.cutoff
    trained_on,     \* index of the target of the last fit that returned:
                    \* the data the wrapped model is fitted on
    last            \* what the last call did and returned

vars == <<is_fitted, _y, _X, _fh, cutoff, trained_on, last>>

Self ==
    [is_fitted |-> is_fitted, y |-> _y, X |-> _X, fh |-> _fh,
     cutoff |-> cutoff, trained_on |-> trained_on]

NoCall ==
    [op |-> "init", outcome |-> "ok", model_called |-> FALSE,
     return_pred_int |-> FALSE, X_arg |-> NoTable, fh_arg |-> NoFh,
     index |-> NoIndex, y_hcb |-> NoSeries, X_hcb |-> NoTable,
     preds |-> NoSeries]

\* _SktimeForecaster._set_y_X: keep the originals, the cutoff is the last
\* key of the target with the frequency of its index
_set_y_X(self, y, X) ==
    [self EXCEPT !.y = y, !.X = X,
                 !.cutoff = [kind |-> IF IsTimeIndex(y.index)
                                      THEN y.index.kind ELSE "int",
                             freq |-> y.index.freq,
                             key |-> y.index.keys[Len(y.index.keys)]]]

\* _OptionalForecastingHorizonMixin._set_fh: a horizon that is passed is
\* recorded, an absent one leaves the recorded horizon
_set_fh(self, fh) ==
    IF fh = NoFh THEN self ELSE [self EXCEPT !.fh = fh]

\* fit as it would be if the flag were set before the inputs are adapted
fit_marking_first(self, y_train, X_train, fh, model_raises) ==
    LET s1 == _set_y_X(self, y_train, X_train)
        s2 == [_set_fh(s1, fh) EXCEPT !.is_fitted = TRUE]
        a == _adapt_fit_data(y_train, X_train)
        call == [NoCall EXCEPT !.op = "fit", !.X_arg = X_train, !.fh_arg = fh]
    IN IF a.err # "none"
       THEN [self |-> s2, last |-> [call EXCEPT !.outcome = a.err]]
       ELSE IF model_raises
       THEN [self |-> s2,
             last |-> [call EXCEPT !.outcome = "ModelError",
                                   !.model_called = TRUE,
                                   !.y_hcb = a.y, !.X_hcb = a.X]]
       ELSE [self |-> [s2 EXCEPT !.trained_on = y_train.index],
             last |-> [call EXCEPT !.model_called = TRUE,
                                   !.y_hcb = a.y, !.X_hcb = a.X]]

\* fit as it would be if every call started by clearing the flag
fit_clearing_first(self, y_train, X_train, fh, model_raises) ==
    LET s1 == _set_y_X([self EXCEPT !.is_fitted = FALSE], y_train, X_train)
        s2 == _set_fh(s1, fh)
        a == _adapt_fit_data(y_train, X_train)
        call == [NoCall EXCEPT !.op = "fit", !.X_arg = X_train, !.fh_arg = fh]
    IN IF a.err # "none"
       THEN [self |-> s2, last |-> [call EXCEPT !.outcome = a.err]]
       ELSE IF model_raises
       THEN [self |-> s2,
             last |-> [call EXCEPT !.outcome = "ModelError",
                                   !.model_called = TRUE,
                                   !.y_hcb = a.y, !.X_hcb = a.X]]
       ELSE [self |-> [s2 EXCEPT !.is_fitted = TRUE,
                                 !.trained_on = y_train.index],
             last |-> [call EXCEPT !.model_called = TRUE,
                                   !.y_hcb = a.y, !.X_hcb = a.X]]

fit(self, y_train, X_train, fh, model_raises) ==
    LET s1 == _set_y_X(self, y_train, X_train)
        s2 == _set_fh(s1, fh)
        a == _adapt_fit_data(y_train, X_train)
        call == [NoCall EXCEPT !.op = "fit", !.X_arg = X_train, !.fh_arg = fh]
    IN IF a.err # "none"
       THEN [self |-> s2, last |-> [call EXCEPT !.outcome = a.err]]
       ELSE IF model_raises
       THEN [self |-> s2,
             last |-> [call EXCEPT !.outcome = "ModelError",
                                   !.model_called = TRUE,
                                   !.y_hcb = a.y, !.X_hcb = a.X]]
       ELSE [self |-> [s2 EXCEPT !.is_fitted = TRUE,
                                 !.trained_on = y_train.index],
             last |-> [call EXCEPT !.model_called = TRUE,
                                   !.y_hcb = a.y, !.X_hcb = a.X]]

\* the check as it would be if the default confidence level were supported
pred_int_check_passing_default(alpha) ==
    IF alpha = DEFAULT_ALPHA THEN ReturnIndex(NoIndex)
    ELSE Raise("PredIntNotImplemented")

\* raises whatever the confidence level
_check_model_consistent_with_pred_int(alpha) == Raise("PredIntNotImplemented")

\* _SktimeForecaster.check_is_fitted
check_is_fitted(self) == IF self.is_fitted THEN ReturnIndex(NoIndex) ELSE Raise("NotFitted")

predict(self, fh, X, return_pred_int, alpha, model_raises) ==
    LET call == [NoCall EXCEPT !.op = "predict", !.X_arg = X, !.fh_arg = fh,
                               !.return_pred_int = return_pred_int]
        p == IF return_pred_int
             THEN _check_model_consistent_with_pred_int(alpha)
             ELSE ReturnIndex(NoIndex)
        f == check_is_fitted(self)
        s == _set_fh(self, fh)
        e == _extract_dt_index(s.fh, s.cutoff)
        a == _adapt_predict_data(X, e.index)
        c == _convert_predictions(model_predict(a.X), s.cutoff.freq,
                                  s.y.index.kind)
    IN IF p.err # "none"
       THEN [self |-> self, last |-> [call EXCEPT !.outcome = p.err]]
       ELSE IF f.err # "none"
       THEN [self |-> self, last |-> [call EXCEPT !.outcome = f.err]]
       ELSE IF s.fh = NoFh
       THEN [self |-> s, last |-> [call EXCEPT !.outcome = "ValueError"]]
       ELSE IF e.err # "none"
       THEN [self |-> s, last |-> [call EXCEPT !.outcome = e.err]]
       ELSE IF a.err # "none"
       THEN [self |-> s, last |-> [call EXCEPT !.outcome = a.err,
                                               !.index = e.index]]
       ELSE IF model_raises
       THEN [self |-> s,
             last |-> [call EXCEPT !.outcome = "ModelError",
                                   !.model_called = TRUE,
                                   !.index = e.index, !.X_hcb = a.X]]
       ELSE IF c.err # "none"
       THEN [self |-> s,
             last |-> [call EXCEPT !.outcome = c.err, !.model_called = TRUE,
                                   !.index = e.index, !.X_hcb = a.X]]
       ELSE [self |-> s,
             last |-> [call EXCEPT !.model_called = TRUE, !.index = e.index,
                                   !.X_hcb = a.X, !.preds = c.y]]

\* ------------------------------------------------------------- inputs
RangeIndex(n) == [kind |-> "range", freq |-> 0, keys |-> [i \in 1..n |-> i - 1]]

\* n consecutive time positions after position start, at frequency freq
TimeIndex(kind, freq, start, n) ==
    [kind |-> kind, freq |-> freq,
     keys |-> [i \in 1..n |->
                 IF kind = "period" THEN start + i ELSE (start + i) * freq]]

Series(index) ==
    [index |-> index, values |-> [i \in DOMAIN index.keys |-> 10 + i]]

Table(index) ==
    [index |-> index, ncols |-> 1,
     rows |-> [i \in DOMAIN index.keys |-> <<20 + i>>]]

\* pd.DataFrame()
EmptyFrame == [index |-> RangeIndex(0), ncols |-> 0, rows |-> << >>]

\* Inputs of the one-shot scenario (a fresh instance, one fit, one predict).
Targets ==
    {Series(TimeIndex(k, f, 0, n)) : k \in TimeKinds, f \in Freqs, n \in 1..MaxLen}
    \cup {Series(RangeIndex(n)) : n \in 1..MaxLen}

PlainTables == {EmptyFrame} \cup {Table(RangeIndex(n)) : n \in 0..MaxLen}

TimeTables ==
    {Table(TimeIndex(k, f, s, n)) :
        k \in TimeKinds, f \in {DayTicks}, s \in {0, 1, MaxLen}, n \in 1..MaxLen}

FitTables == {NoTable} \cup PlainTables \cup TimeTables

PredictTables == {NoTable} \cup PlainTables \cup TimeTables

Alphas == {DEFAULT_ALPHA, 2 * DEFAULT_ALPHA}

IsIncreasing(s) == \A i \in 1..(Len(s) - 1) : s[i] < s[i + 1]

Horizons ==
    {h \in UNION {[1..n -> 1..MaxStep] : n \in 1..MaxFhLen} : IsIncreasing(h)}

\* Inputs of the life of one instance (any sequence of fit and predict).
SomeTargets ==
    {Series(TimeIndex(k, DayTicks, 0, MaxLen)) : k \in TimeKinds}
    \cup {Series(RangeIndex(MaxLen))}

SomeFitTables ==
    {NoTable} \cup {Table(RangeIndex(n)) : n \in {MaxLen - 1, MaxLen}}
    \cup {Table(TimeIndex("datetime", DayTicks, 0, MaxLen))}

SomePredictTables == {NoTable} \cup {Table(RangeIndex(n)) : n \in 1..MaxFhLen}

SomeHorizons == {[i \in 1..n |-> i] : n \in 1..MaxFhLen} \cup {<<1, MaxStep>>}

Init ==
    /\ is_fitted = FALSE
    /\ _y = NoSeries
    /\ _X = NoTable
    /\ _fh = NoFh
    /\ cutoff = NoCutoff
    /\ trained_on = NoIndex
    /\ last = NoCall

\* the instance and the outcome of the call that returns r
Return(r) ==
    /\ is_fitted' = r.self.is_fitted
    /\ _y' = r.self.y
    /\ _X' = r.self.X
    /\ _fh' = r.self.fh
    /\ cutoff' = r.self.cutoff
    /\ trained_on' = r.self.trained_on
    /\ last' = r.last

\* Any sequence of calls on one instance.
Fit ==
    \E y_train \in SomeTargets, X_train \in SomeFitTables,
       fh \in SomeHorizons \cup {NoFh}, model_raises \in BOOLEAN :
        Return(fit(Self, y_train, X_train, fh, model_raises))

Predict ==
    \E fh \in SomeHorizons \cup {NoFh}, X \in SomePredictTables,
       return_pred_int \in BOOLEAN, alpha \in Alphas, model_raises \in BOOLEAN :
        Return(predict(Self, fh, X, return_pred_int, alpha, model_raises))

Next == Fit \/ Predict

Spec == Init /\ [][Next]_vars

\* A fresh instance, one fit, then one predict.
FirstFit ==
    /\ last.op = "init"
    /\ \E y_train \in Targets, X_train \in FitTables, model_raises \in BOOLEAN :
        Return(fit(Self, y_train, X_train, NoFh, model_raises))

FirstPredict ==
    /\ last.op = "fit"
    /\ \E fh \in Horizons \cup {NoFh}, X \in PredictTables,
          return_pred_int \in BOOLEAN, alpha \in Alphas, model_raises \in BOOLEAN :
        Return(predict(Self, fh, X, return_pred_int, alpha, model_raises))

NextOnce == FirstFit \/ FirstPredict

SpecOnce == Init /\ [][NextOnce]_vars

\* ------------------------------------------------------------ properties
IsContiguous(h) == \A i \in 1..(Len(h) - 1) : h[i + 1] = h[i] + 1

\* the horizon skips a position of the cutoff's frequency
HasGap(h) ==
    Cardinality(SeqToSet(h)) # SetMax(SeqToSet(h)) - SetMin(SeqToSet(h)) + 1

\* a supplied table without time-aware index
IsPlain(t) == t # NoTable /\ ~IsTimeIndex(t.index)

Column0(t) == [i \in DOMAIN t.rows |-> t.rows[i][1]]

\* the call reached the wrapped model (which returned or raised)
ModelReached == last.model_called /\ last.outcome \in {"ok", "ModelError"}

\* C1: for a time-indexed target and no exogenous table, fit succeeds and
\* marks the instance fitted, and a following predict over a contiguous
\* horizon without exogenous table returns a series whose index is the
\* resolved horizon keys in the target's index flavor (the wrapped model
\* not raising).
C1_FitThenPredictIndex ==
    /\ (/\ last.op = "fit"
        /\ IsTimeIndex(_y.index)
        /\ _X = NoTable
        /\ last.outcome # "ModelError")
       => (last.outcome = "ok" /\ is_fitted)
    /\ (/\ last.op = "predict"
        /\ is_fitted
        /\ ~last.return_pred_int
        /\ IsTimeIndex(_y.index)
        /\ _X = NoTable
        /\ last.X_arg = NoTable
        /\ _fh # NoFh
        /\ IsContiguous(_fh)
        /\ last.outcome # "ModelError")
       => (/\ last.outcome = "ok"
           /\ last.preds.index = [kind |-> _y.index.kind,
                                  freq |-> _y.index.freq,
                                  keys |-> to_absolute(_fh, cutoff)])

\* C2: predict with return_pred_int raises the unimplemented-feature error in
\* every state, for every alpha, horizon and exogenous table, before the
\* fitted check, before the horizon is recorded and before the wrapped
\* model is called; the instance is left as it was.
C2_PredIntAlwaysRaises ==
    [][(last'.op = "predict" /\ last'.return_pred_int)
        => (/\ last'.outcome = "PredIntNotImplemented"
            /\ ~last'.model_called
            /\ UNCHANGED <<is_fitted, _y, _X, _fh, cutoff, trained_on>>)]_vars

C2_Witness ==
    /\ last.op = "predict"
    /\ last.return_pred_int
    /\ last.outcome = "PredIntNotImplemented"
    /\ ~is_fitted
    /\ last.fh_arg # NoFh
    /\ last.X_arg # NoTable
    /\ _fh = NoFh

\* C3: a predict (not asking for intervals) before any fit has returned fails
\* with the not-fitted error, records no horizon and does not call the
\* wrapped model, also when earlier fit calls raised.
C3_PredictBeforeFit ==
    [][(trained_on = NoIndex /\ last'.op = "predict" /\ ~last'.return_pred_int)
        => (/\ last'.outcome = "NotFitted"
            /\ ~last'.model_called
            /\ _fh' = _fh)]_vars

C3_Witness ==
    /\ last.op = "predict"
    /\ ~last.return_pred_int
    /\ last.outcome = "NotFitted"
    /\ last.fh_arg # NoFh
    /\ last.fh_arg # _fh
    /\ _y # NoSeries
    /\ trained_on = NoIndex

\* C4 as stated: with neither the target nor the supplied exogenous table
\* time-indexed, fit raises when the lengths differ and succeeds by
\* positional assignment when they are equal.
C4_NeitherTimeAwareByLength ==
    (last.op = "fit" /\ ~IsTimeIndex(_y.index) /\ IsPlain(_X))
    => IF Len(_X.rows) # Len(_y.values)
       THEN last.outcome = "AmbiguousAlignment"
       ELSE ModelReached

\* C4 amended: with neither the target nor the supplied exogenous table
\* time-indexed, fit raises the ambiguous-alignment error whether or not the
\* lengths match, and the wrapped model is not called.
C4_NeitherTimeAwareRaises ==
    (last.op = "fit" /\ ~IsTimeIndex(_y.index) /\ IsPlain(_X))
    => (last.outcome = "AmbiguousAlignment" /\ ~last.model_called /\ ~is_fitted)

C4_Witness ==
    /\ last.op = "fit"
    /\ ~IsTimeIndex(_y.index)
    /\ IsPlain(_X)
    /\ _X.ncols > 0
    /\ Len(_X.rows) = Len(_y.values)
    /\ last.outcome = "AmbiguousAlignment"

\* C5: horizon resolution raises the unsupported-horizon error exactly when
\* the resolved keys skip a position of the cutoff's frequency; a contiguous
\* horizon is accepted and returned as timestamp keys, at every frequency.
C5_GapExactlyRejected ==
    (/\ last.op = "predict"
     /\ is_fitted
     /\ ~last.return_pred_int
     /\ _fh # NoFh
     /\ cutoff.kind \in TimeKinds)
    => /\ (last.outcome = "NonContinuous") <=> HasGap(_fh)
       /\ ~HasGap(_fh) => last.index.kind = "datetime"

\* C6: with target and exogenous table both time-indexed, the adapted table
\* has the target's normalized time positions as index and holds at each
\* the exogenous row of the same time position, null cells where there is
\* none.
C6_LeftJoinOnTimePositions ==
    (last.op = "fit" /\ IsTimeIndex(_y.index) /\ IsTimeIndex(_X.index))
    => LET pos == _ensure_datetime_index(_y.index)
           xpos == _ensure_datetime_index(_X.index)
           At(i) == {j \in DOMAIN xpos.keys : xpos.keys[j] = pos.keys[i]}
       IN /\ last.X_hcb.index = pos
          /\ \A i \in DOMAIN pos.keys :
                last.X_hcb.rows[i] =
                    IF At(i) = {} THEN NullRow(_X.ncols)
                    ELSE _X.rows[CHOOSE j \in At(i) : TRUE]

\* C7: a successful predict returns a series whose index has the flavor of
\* the target the instance was fitted on, the keys of the resolved horizon
\* and the cutoff's frequency; the wrapped model saw a timestamp index and
\* the values are column 0 of its output.
C7_PredictionIndexFlavor ==
    (last.op = "predict" /\ last.outcome = "ok")
    => /\ last.preds.index.kind = trained_on.kind
       /\ last.preds.index.freq = cutoff.freq
       /\ last.preds.index.keys = to_absolute(_fh, cutoff)
       /\ last.X_hcb.index.kind = "datetime"
       /\ last.preds.values = Column0(model_predict(last.X_hcb))

\* C8: the three positional-assignment cases, for the supplied tables
\* Tables(t) lets in: a length mismatch raises the ambiguous-alignment error
\* and the wrapped model is not called; with equal lengths the wrapped model
\* is reached and the assigned data carries the normalized timestamp index
\* of the time-aware side with the values in their order.
PositionalAssignment(Tables(_)) ==
    /\ (last.op = "fit" /\ IsTimeIndex(_y.index) /\ IsPlain(_X) /\ Tables(_X))
       => IF Len(_X.rows) # Len(_y.values)
          THEN last.outcome = "AmbiguousAlignment" /\ ~last.model_called
          ELSE /\ ModelReached
               /\ last.X_hcb.index = _ensure_datetime_index(_y.index)
               /\ last.X_hcb.index.kind = "datetime"
               /\ last.X_hcb.rows = _X.rows
               /\ last.y_hcb.values = _y.values
    /\ (last.op = "fit" /\ ~IsTimeIndex(_y.index) /\ IsTimeIndex(_X.index))
       => IF Len(_X.rows) # Len(_y.values)
          THEN last.outcome = "AmbiguousAlignment" /\ ~last.model_called
          ELSE /\ ModelReached
               /\ last.y_hcb.index = _ensure_datetime_index(_X.index)
               /\ last.y_hcb.index.kind = "datetime"
               /\ last.y_hcb.values = _y.values
               /\ last.X_hcb.index = last.y_hcb.index
               /\ last.X_hcb.rows = _X.rows
    /\ (/\ last.op = "predict"
        /\ last.index # NoIndex
        /\ IsPlain(last.X_arg)
        /\ Tables(last.X_arg))
       => IF Len(last.X_arg.rows) # Len(_fh)
          THEN last.outcome = "AmbiguousAlignment" /\ ~last.model_called
          ELSE /\ last.model_called
               /\ last.X_hcb.index = last.index
               /\ last.X_hcb.index.kind = "datetime"
               /\ last.X_hcb.rows = last.X_arg.rows

AnyTable(t) == TRUE
WithColumns(t) == t.ncols > 0

\* C8 as stated: every supplied table without time-aware index.
C8_PositionalMismatchRaises == PositionalAssignment(AnyTable)

\* C8 amended: every supplied table without time-aware index that has at
\* least one column (a table without columns is accepted whatever its
\* length and adds nothing to the index).
C8_PositionalMismatchRaisesWithColumns == PositionalAssignment(WithColumns)

C8_Witness ==
    /\ last.op = "predict"
    /\ last.index # NoIndex
    /\ IsPlain(last.X_arg)
    /\ last.X_arg.ncols > 0
    /\ Len(last.X_arg.rows) # Len(_fh)
    /\ Len(last.X_arg.rows) > 0
    /\ last.outcome = "AmbiguousAlignment"

\* C9: the fitted flag starts false, becomes true only in a fit call whose
\* adaptation succeeded and whose wrapped fit returned, and is never reset;
\* when adaptation or horizon validation raises, the wrapped model has not
\* been called in that call.
C9_FittedIsOneWay ==
    [][/\ last.op = "init" => ~is_fitted
       /\ is_fitted => is_fitted'
       /\ (~is_fitted /\ is_fitted')
          => (last'.op = "fit" /\ last'.outcome = "ok" /\ last'.model_called)
       /\ last'.outcome \in {"AmbiguousAlignment", "NonContinuous"}
          => ~last'.model_called]_vars

C9_Witness ==
    /\ is_fitted
    /\ last.op = "fit"
    /\ last.outcome = "AmbiguousAlignment"

\* C10: a fit call that raises leaves the instance as it was, so that on a
\* fitted instance the stored target and the cutoff are those of the last
\* fit that returned, the data the wrapped model is fitted on.
C10_RaisingFitKeepsState ==
    is_fitted
    => /\ _y.index = trained_on
       /\ cutoff.key = trained_on.keys[Len(trained_on.keys)]
       /\ cutoff.freq = trained_on.freq
====
